---------------------------- MODULE Spec2Model ----------------------------
(***************************************************************************)
(* integer-parsing/main.cpp: the hand-written parser parse_custom (with    *)
(* its digit scanner parse_single) and the two library-based strategies    *)
(* parse_strtoull and parse_from_chars that the test driver runs on the    *)
(* same input.                                                             *)
(*                                                                         *)
(* Characters are their ASCII codes, so that `str[i] - '0'`, isdigit and   *)
(* isspace are modelled by what they compute.  Indices are 0-based as in   *)
(* the source; the k-th character of the C++ string is s[k+1] here.        *)
(* size_t is scaled from 64 bits to WordBits bits; every constant of the   *)
(* overflow test is derived from the width exactly as the source derives   *)
(* it from size_t(-1).                                                     *)
(***************************************************************************)
EXTENDS Integers, Sequences, FiniteSets

(* ------------------------------ bounds -------------------------------- *)

\* Width of size_t / unsigned long long in the model.
WordBits == 4

\* Longest input string drawn over the narrow alphabet.
MaxLen == 5

\* Longest input string drawn over the full alphabet.
ShortLen == 3

\* Longest input string drawn for the whitespace-replacement runs.
WhiteLen == 4

(* --------------------------- the word type ---------------------------- *)

Modulus == 2 ^ WordBits

\* constexpr size_t max_val = size_t(-1);
max_val == Modulus - 1

\* constexpr size_t risky_val = max_val/10;
risky_val == max_val \div 10

\* constexpr size_t max_digit = max_val % 10;
max_digit == max_val % 10

\* ULLONG_MAX, the value strtoull returns on overflow.
ULLONG_MAX == Modulus - 1

(* ----------------------------- characters ----------------------------- *)

\* Mutant of isspace: isblank, which knows space and tab only.
isspace_Blank(c) == c \in {32, 9}

\* Mutant of isspace: the vertical tab and the form feed are forgotten.
isspace_NoVerticalTab(c) == c \in {32, 9, 10, 13}

\* <cctype> isspace in the "C" locale: space, \t, \n, \v, \f, \r.
isspace(c) == c \in {32, 9, 10, 11, 12, 13}

\* <cctype> isdigit: '0'..'9'.
isdigit(c) == c \in 48..57

\* str[i] - '0'
DigitOf(c) == c - 48

\* str[k]: std::string::operator[] yields the terminating NUL at k = size(),
\* which is also what the C functions see at the end of &str[i].
CharAt(s, k) == IF k < Len(s) THEN s[k + 1] ELSE 0

\* Mutant of InBounds: the loop tests read str[i] without testing i.
InBounds_Unchecked(s, k) == TRUE

\* The `i < str.size() &&` operand that guards every read inside a loop test.
InBounds(s, k) == k < Len(s)

\* i < str.size() && isspace(str[i])
InSpaceRun(s, k) == InBounds(s, k) /\ isspace(CharAt(s, k))

\* i < str.size() && isdigit(str[i])
InDigitRun(s, k) == InBounds(s, k) /\ isdigit(CharAt(s, k))

\* The index a short-circuited loop test reads, or NoRead.
NoRead == -1
ReadBy(s, k) == IF InBounds(s, k) THEN k ELSE NoRead

(* ------------------------------ results ------------------------------- *)

\* A field of Result that the function returned without assigning.
Unset == -1

\* struct Result { size_t row; size_t col; ErrCode err; }
Result(r, c, e) == [row |-> r, col |-> c, err |-> e]

\* bool operator==(Result a, Result b)
ResultEq(a, b) ==
    IF a.err # b.err THEN FALSE
    ELSE IF a.err # "success" THEN TRUE
    ELSE a.col = b.col /\ a.row = b.row

(* ------------------- parse_single and parse_custom -------------------- *)

\* Mutant of FitsAnotherDigit: the digit is not compared at risky_val.
FitsAnotherDigit_NoDigitTest(res, d) == res <= max_val \div 10

\* Mutant of FitsAnotherDigit: d < max_digit, which rejects max_val itself.
FitsAnotherDigit_Strict(res, d) ==
    res < max_val \div 10 \/ (res = max_val \div 10 /\ d < max_val % 10)

\* if (res < risky_val || (res == risky_val && d <= max_digit))
FitsAnotherDigit(res, d) == res < risky_val \/ (res = risky_val /\ d <= max_digit)

\* Mutant of MulAdd: the accumulator is not scaled by ten.
MulAdd_NoScale(res, d) == (res + d) % Modulus

\* res = res*10 + d;  in size_t arithmetic
MulAdd(res, d) == (res * 10 + d) % Modulus

\* The locals of one call of parse_custom (i, end, res.row, res.col, res.err),
\* those of the parse_single call in progress (its own i, here j, and res,
\* here acc), the statement reached, and the index read by the last step.
Frame(pc, i, j, acc, end, row, col, err, rd) ==
    [pc |-> pc, i |-> i, j |-> j, acc |-> acc, end |-> end,
     row |-> row, col |-> col, err |-> err, rd |-> rd]

\* Result res; size_t i = 0;   the frame on entry to parse_custom
Entry == Frame("skip_row", 0, 0, 0, Unset, Unset, Unset, "none", NoRead)

\* res.err = e; return res;
Return(f, e, rd) == [f EXCEPT !.pc = "done", !.err = e, !.rd = rd]

\* while (i < str.size() && isspace(str[i])) ++i;   one test of the loop
\* (the first loop leads to the empty check, the second to the col check)
SkipStep(s, f, next) ==
    IF InSpaceRun(s, f.i)
    THEN [f EXCEPT !.i = f.i + 1, !.rd = ReadBy(s, f.i)]
    ELSE [f EXCEPT !.pc = next, !.rd = ReadBy(s, f.i)]

\* if (i >= str.size()) { res.err = ErrCode::empty; return res; }
\* if (!isdigit(str[i])) { res.err = ErrCode::error; return res; }
\* then the call parse_single(str, i, end, res.row): size_t res = 0
RowCheckStep(s, f) ==
    IF f.i >= Len(s) THEN Return(f, "empty", NoRead)
    ELSE IF ~isdigit(CharAt(s, f.i)) THEN Return(f, "error", f.i)
    ELSE [f EXCEPT !.pc = "scan_row", !.j = f.i, !.acc = 0, !.rd = f.i]

\* Mutant of ColCheckStep: the test that col starts with a digit is missing.
ColCheckStep_NoDigitTest(s, f) ==
    IF f.i >= Len(s) THEN Return(f, "error", NoRead)
    ELSE [f EXCEPT !.pc = "scan_col", !.j = f.i, !.acc = 0, !.rd = f.i]

\* Mutant of ColCheckStep: a missing col at the end of input is taken as 0.
ColCheckStep_OptionalCol(s, f) ==
    IF f.i >= Len(s)
    THEN [f EXCEPT !.pc = "done", !.col = 0, !.err = "success", !.rd = NoRead]
    ELSE IF ~isdigit(CharAt(s, f.i)) THEN Return(f, "error", f.i)
    ELSE [f EXCEPT !.pc = "scan_col", !.j = f.i, !.acc = 0, !.rd = f.i]

\* if (i >= str.size() || !isdigit(str[i])) { res.err = ErrCode::error; return res; }
\* then the call parse_single(str, i, end, res.col): size_t res = 0
ColCheckStep(s, f) ==
    IF f.i >= Len(s) THEN Return(f, "error", NoRead)
    ELSE IF ~isdigit(CharAt(s, f.i)) THEN Return(f, "error", f.i)
    ELSE [f EXCEPT !.pc = "scan_col", !.j = f.i, !.acc = 0, !.rd = f.i]

\* Mutant of ScanStep: col must be followed by whitespace or the end of input.
ScanStep_StrictTail(s, f) ==
    IF InDigitRun(s, f.j)
    THEN IF FitsAnotherDigit(f.acc, DigitOf(CharAt(s, f.j)))
         THEN [f EXCEPT !.acc = MulAdd(f.acc, DigitOf(CharAt(s, f.j))),
                        !.j = f.j + 1, !.rd = ReadBy(s, f.j)]
         ELSE Return(f, "error", ReadBy(s, f.j))
    ELSE IF f.pc = "scan_row"
         THEN [f EXCEPT !.pc = "skip_col", !.end = f.j, !.row = f.acc,
                        !.i = f.j, !.rd = ReadBy(s, f.j)]
         ELSE IF f.j < Len(s) /\ ~isspace(CharAt(s, f.j))
         THEN Return(f, "error", ReadBy(s, f.j))
         ELSE [f EXCEPT !.pc = "done", !.end = f.j, !.col = f.acc,
                        !.err = "success", !.rd = ReadBy(s, f.j)]

\* One test of parse_single's loop.  In the run: multiply-add and ++i, or
\* return false, on which parse_custom returns error.  Past the run:
\* end = i; val = res; return true, and parse_custom goes on with i = end
\* (row) or returns success (col).
ScanStep(s, f) ==
    IF InDigitRun(s, f.j)
    THEN IF FitsAnotherDigit(f.acc, DigitOf(CharAt(s, f.j)))
         THEN [f EXCEPT !.acc = MulAdd(f.acc, DigitOf(CharAt(s, f.j))),
                        !.j = f.j + 1, !.rd = ReadBy(s, f.j)]
         ELSE Return(f, "error", ReadBy(s, f.j))
    ELSE IF f.pc = "scan_row"
         THEN [f EXCEPT !.pc = "skip_col", !.end = f.j, !.row = f.acc,
                        !.i = f.j, !.rd = ReadBy(s, f.j)]
         ELSE [f EXCEPT !.pc = "done", !.end = f.j, !.col = f.acc,
                        !.err = "success", !.rd = ReadBy(s, f.j)]

\* The next statement of parse_custom on input s from frame f.
Step(s, f) ==
    CASE f.pc = "skip_row"  -> SkipStep(s, f, "check_row")
      [] f.pc = "check_row" -> RowCheckStep(s, f)
      [] f.pc = "scan_row"  -> ScanStep(s, f)
      [] f.pc = "skip_col"  -> SkipStep(s, f, "check_col")
      [] f.pc = "check_col" -> ColCheckStep(s, f)
      [] f.pc = "scan_col"  -> ScanStep(s, f)
      [] OTHER              -> f

RECURSIVE Run(_, _)
Run(s, f) == IF f.pc = "done" THEN f ELSE Run(s, Step(s, f))

\* Result parse_custom(const std::string& str)
parse_custom(s) ==
    LET f == Run(s, Entry) IN Result(f.row, f.col, f.err)

(* --------------------- the library-based strategies ------------------- *)

\* The end of the run of whitespace that starts at k.
RECURSIVE SpaceRunEnd(_, _)
SpaceRunEnd(s, k) == IF isspace(CharAt(s, k)) THEN SpaceRunEnd(s, k + 1) ELSE k

\* The end of the run of digits that starts at k.
RECURSIVE DigitRunEnd(_, _)
DigitRunEnd(s, k) == IF isdigit(CharAt(s, k)) THEN DigitRunEnd(s, k + 1) ELSE k

\* The number that the digits s[from..to-1] (0-based, to excluded) denote.
RECURSIVE DecimalValue(_, _, _)
DecimalValue(s, from, to) ==
    IF to <= from THEN 0
    ELSE DecimalValue(s, from, to - 1) * 10 + DigitOf(CharAt(s, to - 1))

\* std::strtoull(&str[from], &end, 10): whitespace, an optional sign, digits.
\* No digits: 0 and end = the start.  Out of range: ULLONG_MAX and ERANGE.
\* A minus sign negates the value in the unsigned type.
strtoull(s, from) ==
    LET p   == SpaceRunEnd(s, from)
        neg == CharAt(s, p) = 45
        q   == IF CharAt(s, p) \in {43, 45} THEN p + 1 ELSE p
        e   == DigitRunEnd(s, q)
        v   == DecimalValue(s, q, e)
    IN  IF e = q THEN [val |-> 0, end |-> from, erange |-> FALSE]
        ELSE IF v > ULLONG_MAX THEN [val |-> ULLONG_MAX, end |-> e, erange |-> TRUE]
        ELSE [val |-> IF neg THEN (Modulus - v) % Modulus ELSE v,
              end |-> e, erange |-> FALSE]

\* std::from_chars(&str[from], str.data() + str.size(), value) for an unsigned
\* value: a non-empty run of digits, no sign, no whitespace.
from_chars(s, from) ==
    LET e == DigitRunEnd(s, from)
        v == DecimalValue(s, from, e)
    IN  IF e = from THEN [ec |-> "invalid_argument", ptr |-> from, val |-> Unset]
        ELSE IF v > max_val THEN [ec |-> "result_out_of_range", ptr |-> e, val |-> Unset]
        ELSE [ec |-> "ok", ptr |-> e, val |-> v]

\* The cursor after `while (i < str.size() && isspace(str[i])) ++i;` from k.
RECURSIVE SkipSpaces(_, _)
SkipSpaces(s, k) == IF InSpaceRun(s, k) THEN SkipSpaces(s, k + 1) ELSE k

\* Result parse_strtoull(const std::string& str)
parse_strtoull(s) ==
    LET i  == SkipSpaces(s, 0)
        c1 == strtoull(s, i)
        c2 == strtoull(s, c1.end)
        errno1 == c1.erange
        errno2 == errno1 \/ c2.erange
    IN  IF i >= Len(s) THEN Result(Unset, Unset, "empty")
        ELSE IF i = c1.end \/ (c1.val = ULLONG_MAX /\ errno1)
             THEN Result(c1.val, Unset, "error")
        ELSE IF c2.end = c1.end \/ (c2.val = ULLONG_MAX /\ errno2)
             THEN Result(c1.val, c2.val, "error")
        ELSE Result(c1.val, c2.val, "success")

\* Result parse_from_chars(const std::string& str)
parse_from_chars(s) ==
    LET i  == SkipSpaces(s, 0)
        c1 == from_chars(s, i)
        k  == SkipSpaces(s, c1.ptr)
        c2 == from_chars(s, k)
    IN  IF i >= Len(s) THEN Result(Unset, Unset, "empty")
        ELSE IF c1.ec \in {"invalid_argument", "result_out_of_range"}
             THEN Result(Unset, Unset, "error")
        ELSE IF k >= Len(s) THEN Result(c1.val, Unset, "error")
        ELSE IF c2.ec \in {"invalid_argument", "result_out_of_range"}
             THEN Result(c1.val, Unset, "error")
        ELSE Result(c1.val, c2.val, "success")

(* -------------------------- the state machine ------------------------- *)

VARIABLES
    input,         \* the string handed to the parse functions
    f,             \* the frame of the running parse_custom call
    r_strtoull,    \* what parse_strtoull returned on input, once called
    r_from_chars   \* what parse_from_chars returned on input, once called

vars == <<input, f, r_strtoull, r_from_chars>>

\* A strategy the driver has not called yet.
NotCalled == Result(Unset, Unset, "none")

\* Every character the parsers tell apart: the ten digits, the six
\* whitespace characters, both signs and a letter.
FullAlphabet == (48..57) \cup {32, 9, 10, 11, 12, 13} \cup {43, 45, 107}

\* For the longer inputs: the digits 0, 1, 5, 6, 9 (enough to write max_val,
\* its neighbours and runs with leading zeros), space, tab and a letter.
NarrowAlphabet == {48, 49, 53, 54, 57} \cup {32, 9} \cup {107}

\* The test driver's inputs: every short string over the full alphabet and
\* every string up to MaxLen over the narrow one.
Init ==
    /\ \/ \E n \in 0..ShortLen : input \in [1..n -> FullAlphabet]
       \/ \E n \in 0..MaxLen : input \in [1..n -> NarrowAlphabet]
    /\ f = Entry
    /\ r_strtoull = NotCalled
    /\ r_from_chars = NotCalled

\* For the whitespace-replacement runs: two digits, space, vertical tab and
\* a letter (the replacement runs range over all six whitespace characters).
WhiteAlphabet == {49, 57} \cup {32, 11} \cup {107}

InitWhite ==
    /\ \E n \in 0..WhiteLen : input \in [1..n -> WhiteAlphabet]
    /\ f = Entry
    /\ r_strtoull = NotCalled
    /\ r_from_chars = NotCalled

\* parse_custom takes its next step.
Take == f' = Step(input, f) /\ UNCHANGED <<input, r_strtoull, r_from_chars>>

SkipSpace ==
    /\ f.pc \in {"skip_row", "skip_col"} /\ InSpaceRun(input, f.i)
    /\ Take

EndOfSpace ==
    /\ f.pc \in {"skip_row", "skip_col"} /\ ~InSpaceRun(input, f.i)
    /\ Take

ReturnEmpty ==
    /\ f.pc = "check_row" /\ f.i >= Len(input)
    /\ Take

RejectRow ==
    /\ f.pc = "check_row" /\ f.i < Len(input) /\ ~isdigit(CharAt(input, f.i))
    /\ Take

BeginRow ==
    /\ f.pc = "check_row" /\ f.i < Len(input) /\ isdigit(CharAt(input, f.i))
    /\ Take

RejectCol ==
    /\ f.pc = "check_col"
    /\ f.i >= Len(input) \/ ~isdigit(CharAt(input, f.i))
    /\ Take

BeginCol ==
    /\ f.pc = "check_col" /\ f.i < Len(input) /\ isdigit(CharAt(input, f.i))
    /\ Take

AddDigit ==
    /\ f.pc \in {"scan_row", "scan_col"} /\ InDigitRun(input, f.j)
    /\ FitsAnotherDigit(f.acc, DigitOf(CharAt(input, f.j)))
    /\ Take

Overflow ==
    /\ f.pc \in {"scan_row", "scan_col"} /\ InDigitRun(input, f.j)
    /\ ~FitsAnotherDigit(f.acc, DigitOf(CharAt(input, f.j)))
    /\ Take

EndOfRow ==
    /\ f.pc = "scan_row" /\ ~InDigitRun(input, f.j)
    /\ Take

EndOfCol ==
    /\ f.pc = "scan_col" /\ ~InDigitRun(input, f.j)
    /\ Take

\* test_parse_func(parse_strtoull, ...) on the same input
CallStrtoull ==
    /\ f.pc = "done" /\ r_strtoull = NotCalled
    /\ r_strtoull' = parse_strtoull(input)
    /\ UNCHANGED <<input, f, r_from_chars>>

\* test_parse_func(parse_from_chars, ...) on the same input
CallFromChars ==
    /\ f.pc = "done" /\ r_strtoull # NotCalled /\ r_from_chars = NotCalled
    /\ r_from_chars' = parse_from_chars(input)
    /\ UNCHANGED <<input, f, r_strtoull>>

Next ==
    \/ SkipSpace
    \/ EndOfSpace
    \/ ReturnEmpty
    \/ RejectRow
    \/ BeginRow
    \/ RejectCol
    \/ BeginCol
    \/ AddDigit
    \/ Overflow
    \/ EndOfRow
    \/ EndOfCol
    \/ CallStrtoull
    \/ CallFromChars

Spec == Init /\ [][Next]_vars

\* The same driver over the inputs of the whitespace-replacement runs.
SpecWhite == InitWhite /\ [][Next]_vars

\* What parse_custom returned, once it has.
Returned == f.pc = "done"
Outcome == Result(f.row, f.col, f.err)

(* ----------------- what the input denotes, read off the text ---------- *)

Whitespace == {32, 9, 10, 13, 11, 12}
Digits == 48..57

\* The first index at or after k whose character is not whitespace.
RECURSIVE PastWhite(_, _)
PastWhite(s, k) ==
    IF k < Len(s) /\ s[k + 1] \in Whitespace THEN PastWhite(s, k + 1) ELSE k

\* The first index at or after k whose character is not a digit.
RECURSIVE PastDigits(_, _)
PastDigits(s, k) ==
    IF k < Len(s) /\ s[k + 1] \in Digits THEN PastDigits(s, k + 1) ELSE k

\* The decimal value of the digits at indices a..b-1, most significant first.
RECURSIVE Value(_, _, _)
Value(s, a, b) ==
    IF a >= b THEN 0 ELSE (s[a + 1] - 48) * 10 ^ (b - a - 1) + Value(s, a + 1, b)

RowAt(s)  == PastWhite(s, 0)
RowEnd(s) == PastDigits(s, RowAt(s))
ColAt(s)  == PastWhite(s, RowEnd(s))
ColEnd(s) == PastDigits(s, ColAt(s))
HasRow(s) == RowEnd(s) > RowAt(s)
HasCol(s) == HasRow(s) /\ ColEnd(s) > ColAt(s)
RowValue(s) == Value(s, RowAt(s), RowEnd(s))
ColValue(s) == Value(s, ColAt(s), ColEnd(s))
AllWhite(s) == \A k \in 1..Len(s) : s[k] \in Whitespace

(* ------------------------------- claims ------------------------------- *)

\* C1: a digit run worth exactly max_val, in either position, is accepted
\* with that value; a run worth max_val + 1 or more, in either position,
\* makes parse_custom return error; and the accumulator of parse_single is
\* always the exact value of the digits consumed so far (it never wraps).
C1_OverflowBoundary ==
    /\ f.pc \in {"scan_row", "scan_col"} => f.acc = Value(input, f.i, f.j)
    /\ Returned =>
         /\ HasRow(input) /\ RowValue(input) > max_val => f.err = "error"
         /\ HasCol(input) /\ ColValue(input) > max_val => f.err = "error"
         /\ ( /\ HasCol(input)
              /\ RowValue(input) <= max_val /\ ColValue(input) <= max_val
              /\ max_val \in {RowValue(input), ColValue(input)} )
            => Outcome = Result(RowValue(input), ColValue(input), "success")

\* C1 witness: both integers are exactly max_val and the parse succeeded.
C1_Witness ==
    Returned /\ f.err = "success" /\ f.row = max_val /\ f.col = max_val

\* C2: on success, row is the value of the digit run at the first
\* non-whitespace character and col the value of the digit run at the first
\* non-whitespace character after it.
C2_SuccessValues ==
    Returned /\ f.err = "success"
        => f.row = RowValue(input) /\ f.col = ColValue(input)

\* C2 witness: success on a first run with leading zeros that has more
\* digits than max_val has.
C2_Witness ==
    /\ Returned /\ f.err = "success"
    /\ 10 ^ (RowEnd(input) - RowAt(input) - 1) > max_val
    /\ f.row > 0

\* C3: success only if each integer had at least one digit consumed and
\* neither exceeded max_val.
C3_SuccessOnlyIf ==
    Returned /\ f.err = "success"
        => /\ HasRow(input) /\ HasCol(input)
           /\ RowValue(input) <= max_val /\ ColValue(input) <= max_val
           /\ f.end > f.i /\ f.i > RowAt(input)

\* C3 witness: a successful parse of an input that goes on after col.
C3_Witness ==
    Returned /\ f.err = "success" /\ f.end < Len(input) /\ RowAt(input) > 0

\* C4: empty is returned for exactly the inputs without a non-whitespace
\* character.
C4_EmptyIffAllWhite ==
    Returned => (f.err = "empty" <=> AllWhite(input))

\* C4 witness: empty returned for a mix of three different whitespace
\* characters.
C4_Witness ==
    /\ Returned /\ f.err = "empty"
    /\ Cardinality({input[k] : k \in 1..Len(input)}) = 3

\* C5: one in-range integer followed, after whitespace, by the end of the
\* input or by a non-digit gives error.
C5_SingleIntegerRejected ==
    Returned /\ HasRow(input) /\ RowValue(input) <= max_val /\ ~HasCol(input)
        => f.err = "error"

\* C5 witness: an in-range integer, then whitespace up to the end of input.
C5_Witness ==
    /\ Returned /\ HasRow(input) /\ RowValue(input) <= max_val
    /\ RowEnd(input) < Len(input) /\ ColAt(input) = Len(input)
    /\ f.err = "error"

\* The proper prefixes of the input on which parse_custom succeeds.
Prefix(k) == SubSeq(input, 1, k)
SuccessfulPrefixes ==
    {k \in 0..(Len(input) - 1) : parse_custom(Prefix(k)).err = "success"}

\* C6 as claimed: the input is P + S for a successful prefix P, so its
\* result is that of P, whatever S is.
C6_AnySuffix ==
    Returned /\ r_strtoull = NotCalled => \A k \in SuccessfulPrefixes : ResultEq(Outcome, parse_custom(Prefix(k)))

\* The suffix after Prefix(k) begins with a digit that lengthens the col run
\* of the prefix.
ExtendsCol(k) == ColEnd(Prefix(k)) = k /\ input[k + 1] \in Digits

\* C6 amended: the result of P + S is that of P unless the col run of P
\* reaches the end of P and S begins with a digit.
C6_SuffixNotExtendingCol ==
    Returned /\ r_strtoull = NotCalled => \A k \in SuccessfulPrefixes :
                    ~ExtendsCol(k) => ResultEq(Outcome, parse_custom(Prefix(k)))

\* C6 witness: a successful prefix followed by a suffix that does not
\* lengthen its col run.
C6_Witness ==
    /\ Returned
    /\ \E k \in SuccessfulPrefixes : ~ExtendsCol(k) /\ ColEnd(Prefix(k)) = k

\* The maximal whitespace runs of s, as pairs <<a, b>> of indices a..b-1.
WhiteRuns(s) ==
    {<<a, PastWhite(s, a)>> : a \in
        {k \in 0..(Len(s) - 1) : /\ s[k + 1] \in Whitespace
                                 /\ (k = 0 \/ s[k] \notin Whitespace)}}

\* s with the characters at indices run[1]..run[2]-1 replaced by those of w.
Replaced(s, run, w) ==
    [k \in 1..Len(s) |->
        IF k - 1 >= run[1] /\ k - 1 < run[2] THEN w[k - run[1]] ELSE s[k]]

\* Every string got from s by replacing one maximal whitespace run by a
\* whitespace run of the same length.
WhiteVariants(s) ==
    UNION {{Replaced(s, run, w) : w \in [1..(run[2] - run[1]) -> Whitespace]} :
           run \in WhiteRuns(s)}

\* C7: replacing a maximal whitespace run by any whitespace run of the same
\* length leaves the result of parse_custom unchanged.
C7_WhitespaceEquivalence ==
    Returned /\ r_strtoull = NotCalled => \A v \in WhiteVariants(input) : ResultEq(parse_custom(v), Outcome)

\* C7 witness: a successful parse of an input with two whitespace runs.
C7_Witness ==
    Returned /\ f.err = "success" /\ Cardinality(WhiteRuns(input)) >= 2

\* C8 as claimed: parse_strtoull returns a Result equal to parse_custom's.
C8_StrtoullAgrees ==
    r_strtoull # NotCalled => ResultEq(r_strtoull, Outcome)

\* C9: parse_from_chars returns a Result equal to parse_custom's.
C9_FromCharsAgrees ==
    r_from_chars # NotCalled => ResultEq(r_from_chars, Outcome)

\* C9 witness: both strategies were run and both succeeded.
C9_Witness ==
    r_from_chars # NotCalled /\ r_from_chars.err = "success" /\ f.err = "success"

\* C10: both cursors (parse_custom's i and parse_single's i) stay within
\* 0..length, never decrease, and a character is read only at an index
\* below the length.
C10_CursorInvariant ==
    /\ [](/\ 0 <= f.i /\ f.i <= Len(input)
          /\ 0 <= f.j /\ f.j <= Len(input)
          /\ f.rd = NoRead \/ (0 <= f.rd /\ f.rd < Len(input)))
    /\ [][f'.i >= f.i /\ f'.j >= f.j]_vars

\* C10 witness: the col digit run extends to the end of the input and the
\* scanner has stopped there.
C10_Witness ==
    /\ Returned /\ f.err = "success"
    /\ f.end = Len(input) /\ f.j = Len(input)

=============================================================================
